---- MODULE Spec2Model ----
(***************************************************************************)
(* A model of the minimal SFU example of fivebats/webrtc and of the        *)
(* MediaEngine it negotiates codecs with.                                  *)
(*                                                                         *)
(*   src/unnamed/part_000, lines 1-190  : the sfu example (variant "sfu")  *)
(*   src/examples/sfu-minimal/main.go   : the same example, resolving the  *)
(*                                        offers with PopulateFromSDP and  *)
(*                                        firstCodecOfType (variant        *)
(*                                        "minimal")                       *)
(*   src/unnamed/part_000, lines 192-481: MediaEngine, RTPCodec            *)
(*                                                                         *)
(* Spec is the relay program: the main goroutine, the OnTrack handlers,    *)
(* the forwarding loop and the PLI ticker goroutines.  SpecCodec applies   *)
(* the MediaEngine operations to session descriptions drawn from a bounded *)
(* set.                                                                    *)
(***************************************************************************)
EXTENDS Integers, Sequences, FiniteSets, TLC

(***************************************************************************)
(* Bounds of the model.                                                    *)
(***************************************************************************)
\* formats declared in one session description, over all its media sections
MaxFormats == 2
\* media sections of one session description
MaxMedia == 2
\* registry-changing operations applied to one MediaEngine in SpecCodec
MaxOps == 2
\* packets the forwarding loop reads from the inbound track
MaxPackets == 2
\* subscriber offers the subscriber loop takes from sdpChan
MaxSubs == 2
\* invocations of the OnTrack handler (remote tracks of the publisher)
MaxTracks == 2
\* ticks a PLI ticker delivers
MaxTicks == 2

(***************************************************************************)
(* Program constants.                                                      *)
(***************************************************************************)
DefaultPayloadTypeG722 == 9
DefaultPayloadTypeOpus == 111
DefaultPayloadTypeVP8 == 96
DefaultPayloadTypeVP9 == 98
DefaultPayloadTypeH264 == 102

G722 == "G722"
Opus == "opus"
VP8 == "VP8"
VP9 == "VP9"
H264 == "H264"

RTPCodecTypeAudio == 1
RTPCodecTypeVideo == 2

\* the nil error, and the errors the program builds or receives
Nil == "nil"
ErrUnmarshal == "sdp: unmarshal error"
ErrFormatParse == "format parse error"
ErrNoCodecForPayloadType == "could not find codec for payload type"
ErrNoNamedCodec == "no codec in session description"
ErrNoKindCodecs == "no codecs of kind found"
ErrCodecNotFound == "codec not found"
ErrClosedPipe == "io: read/write on closed pipe"
ErrTransport == "transport error"
ErrRead == "read error"

(***************************************************************************)
(* RTPCodec and its constructors.                                          *)
(***************************************************************************)
\* RTPCodecType.String
TypeString(t) ==
    CASE t = RTPCodecTypeAudio -> "audio"
      [] t = RTPCodecTypeVideo -> "video"
      [] OTHER -> "unknown type"

NewRTPCodec(codecType, name, clockrate, channels, fmtp, payloadType, payloader) ==
    [MimeType    |-> <<TypeString(codecType), "/", name>>,
     ClockRate   |-> clockrate,
     Channels    |-> channels,
     SDPFmtpLine |-> fmtp,
     PayloadType |-> payloadType,
     Payloader   |-> payloader,
     Type        |-> codecType,
     Name        |-> name]

NewRTPG722Codec(payloadType, clockrate) ==
    NewRTPCodec(RTPCodecTypeAudio, G722, clockrate, 0, "", payloadType, "G722Payloader")

NewRTPOpusCodec(payloadType, clockrate) ==
    NewRTPCodec(RTPCodecTypeAudio, Opus, clockrate, 2, "minptime=10;useinbandfec=1",
                payloadType, "OpusPayloader")

NewRTPVP8Codec(payloadType, clockrate) ==
    NewRTPCodec(RTPCodecTypeVideo, VP8, clockrate, 0, "", payloadType, "VP8Payloader")

NewRTPVP9Codec(payloadType, clockrate) ==
    NewRTPCodec(RTPCodecTypeVideo, VP9, clockrate, 0, "", payloadType, "nil")

NewRTPH264Codec(payloadType, clockrate) ==
    NewRTPCodec(RTPCodecTypeVideo, H264, clockrate, 0,
                "level-asymmetry-allowed=1;packetization-mode=1;profile-level-id=42001f",
                payloadType, "H264Payloader")

(***************************************************************************)
(* Session descriptions.  A description is what sdp.Unmarshal makes of the *)
(* text: whether it parsed, the format strings of every media section      *)
(* (md.MediaName.Formats) and the codecs its rtpmap/fmtp attributes bind   *)
(* to payload types (what GetCodecForPayloadType looks up).  A format is a *)
(* string, modelled as the sequence of its characters.                     *)
(***************************************************************************)
Digits == {"0", "1", "2", "3", "4", "5", "6", "7", "8", "9"}

DigitVal(c) ==
    CASE c = "0" -> 0 [] c = "1" -> 1 [] c = "2" -> 2 [] c = "3" -> 3 [] c = "4" -> 4
      [] c = "5" -> 5 [] c = "6" -> 6 [] c = "7" -> 7 [] c = "8" -> 8 [] c = "9" -> 9

RECURSIVE DecimalVal(_)
DecimalVal(s) ==
    IF s = <<>> THEN 0
    ELSE 10 * DecimalVal(SubSeq(s, 1, Len(s) - 1)) + DigitVal(s[Len(s)])

AllDigits(s) == s # <<>> /\ \A k \in 1..Len(s) : s[k] \in Digits

\* strconv.Atoi: an optional sign, then one or more decimal digits
Atoi(s) ==
    IF s # <<>> /\ s[1] \in {"+", "-"}
    THEN IF AllDigits(Tail(s))
         THEN [val |-> IF s[1] = "-" THEN 0 - DecimalVal(Tail(s)) ELSE DecimalVal(Tail(s)),
               err |-> Nil]
         ELSE [val |-> 0, err |-> "strconv.Atoi: invalid syntax"]
    ELSE IF AllDigits(s)
         THEN [val |-> DecimalVal(s), err |-> Nil]
         ELSE [val |-> 0, err |-> "strconv.Atoi: invalid syntax"]

\* the conversion uint8(pt) of an int
Uint8(n) == n % 256

\* sdp.SessionDescription.GetCodecForPayloadType
GetCodecForPayloadType(sd, payloadType) ==
    IF payloadType \in DOMAIN sd.rtpmap
    THEN [codec |-> sd.rtpmap[payloadType], err |-> Nil]
    ELSE [codec |-> [Name |-> "", ClockRate |-> 0, Fmtp |-> ""],
          err |-> "payload type not found"]

\* the formats of all media sections, in media-section then format order
RECURSIVE FlatFormats(_)
FlatFormats(media) ==
    IF media = <<>> THEN <<>> ELSE Head(media) \o FlatFormats(Tail(media))

(***************************************************************************)
(* MediaEngine.  m.codecs is a sequence of RTPCodec.                       *)
(***************************************************************************)
\* a RegisterCodec that replaces the codecs registered with the payload type
RegisterCodecReplacing(codecs, codec) ==
    LET Other(c) == c.PayloadType # codec.PayloadType
    IN  Append(SelectSeq(codecs, Other), codec)

\* RegisterCodec: the codecs after the call (it returns codec.PayloadType)
RegisterCodec(codecs, codec) == Append(codecs, codec)

RegisterDefaultCodecs(codecs) ==
    LET c1 == RegisterCodec(codecs, NewRTPOpusCodec(DefaultPayloadTypeOpus, 48000))
        c2 == RegisterCodec(c1, NewRTPG722Codec(DefaultPayloadTypeG722, 8000))
        c3 == RegisterCodec(c2, NewRTPVP8Codec(DefaultPayloadTypeVP8, 90000))
        c4 == RegisterCodec(c3, NewRTPH264Codec(DefaultPayloadTypeH264, 90000))
    IN  RegisterCodec(c4, NewRTPVP9Codec(DefaultPayloadTypeVP9, 90000))

\* the body of the inner loop of PopulateFromSDP for one format: the codec
\* built for the payload type, or skip, or the error returned
PopulateFormat(sd, format) ==
    LET pt == Atoi(format)
        payloadType == Uint8(pt.val)
        payloadCodec == GetCodecForPayloadType(sd, payloadType)
        clockRate == payloadCodec.codec.ClockRate
        parameters == payloadCodec.codec.Fmtp
        name == payloadCodec.codec.Name
    IN  IF pt.err # Nil THEN [err |-> ErrFormatParse, skip |-> TRUE]
        ELSE IF payloadCodec.err # Nil
             THEN [err |-> ErrNoCodecForPayloadType, skip |-> TRUE]
        ELSE IF name = G722
             THEN [err |-> Nil, skip |-> FALSE,
                   codec |-> NewRTPG722Codec(payloadType, clockRate)]
        ELSE IF name = Opus
             THEN [err |-> Nil, skip |-> FALSE,
                   codec |-> NewRTPOpusCodec(payloadType, clockRate)]
        ELSE IF name = VP8
             THEN [err |-> Nil, skip |-> FALSE,
                   codec |-> [NewRTPVP8Codec(payloadType, clockRate)
                                 EXCEPT !.SDPFmtpLine = parameters]]
        ELSE IF name = VP9
             THEN [err |-> Nil, skip |-> FALSE,
                   codec |-> [NewRTPVP9Codec(payloadType, clockRate)
                                 EXCEPT !.SDPFmtpLine = parameters]]
        ELSE IF name = H264
             THEN [err |-> Nil, skip |-> FALSE,
                   codec |-> [NewRTPH264Codec(payloadType, clockRate)
                                 EXCEPT !.SDPFmtpLine = parameters]]
        ELSE [err |-> Nil, skip |-> TRUE]

\* the two nested loops of PopulateFromSDP over the formats still to visit
RECURSIVE PopulateFormats(_, _, _)
PopulateFormats(codecs, sd, formats) ==
    IF formats = <<>> THEN [codecs |-> codecs, err |-> Nil]
    ELSE LET r == PopulateFormat(sd, Head(formats))
         IN  IF r.err # Nil THEN [codecs |-> codecs, err |-> r.err]
             ELSE IF r.skip THEN PopulateFormats(codecs, sd, Tail(formats))
             ELSE PopulateFormats(RegisterCodec(codecs, r.codec), sd, Tail(formats))

\* PopulateFromSDP: the codecs after the call and the error returned
PopulateFromSDP(codecs, sd) ==
    IF sd.unmarshalErr THEN [codecs |-> codecs, err |-> ErrUnmarshal]
    ELSE PopulateFormats(codecs, sd, FlatFormats(sd.media))

\* a GetCodecsByKind that returns the newest registration first
GetCodecsByKindNewestFirst(codecs, kind) ==
    LET IsKind(c) == c.Type = kind
        hits == SelectSeq(codecs, IsKind)
    IN  [i \in 1..Len(hits) |-> hits[Len(hits) + 1 - i]]

GetCodecsByKind(codecs, kind) ==
    LET IsKind(c) == c.Type = kind IN SelectSeq(codecs, IsKind)

GetCodecsByName(codecs, codecName) ==
    LET IsName(c) == c.Name = codecName IN SelectSeq(codecs, IsName)

\* getCodec: the first codec registered with the payload type
getCodec(codecs, payloadType) ==
    LET hits == {k \in 1..Len(codecs) : codecs[k].PayloadType = payloadType}
    IN  IF hits = {} THEN [found |-> FALSE, err |-> ErrCodecNotFound]
        ELSE [found |-> TRUE, err |-> Nil,
              codec |-> codecs[CHOOSE k \in hits : \A j \in hits : k <= j]]

\* a preferredCodec that returns the last codec of the name
preferredCodecLast(codecName, sd) ==
    LET pop == PopulateFromSDP(<<>>, sd)
        codecs == GetCodecsByName(pop.codecs, codecName)
    IN  IF pop.err # Nil THEN [found |-> FALSE, PayloadType |-> 0, err |-> pop.err]
        ELSE IF Len(codecs) = 0
             THEN [found |-> FALSE, PayloadType |-> 0, err |-> ErrNoNamedCodec]
        ELSE [found |-> TRUE, PayloadType |-> codecs[Len(codecs)].PayloadType, err |-> Nil]

\* a preferredCodec that falls back to the first codec of the description
preferredCodecFallback(codecName, sd) ==
    LET pop == PopulateFromSDP(<<>>, sd)
        codecs == GetCodecsByName(pop.codecs, codecName)
    IN  IF pop.err # Nil THEN [found |-> FALSE, PayloadType |-> 0, err |-> pop.err]
        ELSE IF Len(codecs) = 0
             THEN IF Len(pop.codecs) = 0
                  THEN [found |-> FALSE, PayloadType |-> 0, err |-> ErrNoNamedCodec]
                  ELSE [found |-> TRUE, PayloadType |-> pop.codecs[1].PayloadType,
                        err |-> Nil]
        ELSE [found |-> TRUE, PayloadType |-> codecs[1].PayloadType, err |-> Nil]

\* preferredCodec of the sfu example: the payload type of the codec returned
\* (0 stands for the nil codec) and the error
preferredCodec(codecName, sd) ==
    LET pop == PopulateFromSDP(<<>>, sd)
        codecs == GetCodecsByName(pop.codecs, codecName)
    IN  IF pop.err # Nil THEN [found |-> FALSE, PayloadType |-> 0, err |-> pop.err]
        ELSE IF Len(codecs) = 0
             THEN [found |-> FALSE, PayloadType |-> 0, err |-> ErrNoNamedCodec]
        ELSE [found |-> TRUE, PayloadType |-> codecs[1].PayloadType, err |-> Nil]

\* firstCodecOfType of the sfu-minimal example
firstCodecOfType(m, codecName, kind) ==
    LET codecs == GetCodecsByKind(m, kind)
        hits == {k \in 1..Len(codecs) : codecs[k].Name = codecName}
    IN  IF Len(codecs) = 0
        THEN [found |-> FALSE, PayloadType |-> 0, err |-> ErrNoKindCodecs]
        ELSE IF hits = {}
             THEN [found |-> FALSE, PayloadType |-> 0, err |-> ErrNoNamedCodec]
        ELSE [found |-> TRUE, err |-> Nil,
              PayloadType |-> codecs[CHOOSE k \in hits : \A j \in hits : k <= j].PayloadType]

\* the resolution of an offer in sfu-minimal: PopulateFromSDP into a fresh
\* MediaEngine, then firstCodecOfType
minimalPreferred(codecName, sd) ==
    LET pop == PopulateFromSDP(<<>>, sd)
    IN  IF pop.err # Nil THEN [found |-> FALSE, PayloadType |-> 0, err |-> pop.err]
        ELSE firstCodecOfType(pop.codecs, codecName, RTPCodecTypeVideo)

(***************************************************************************)
(* The session descriptions the operations are applied to.                 *)
(***************************************************************************)
\* format strings: 96, 100, 352 (uint8: 96), -160 (uint8: 96), and a
\* string that is no integer
FormatStrings ==
    { <<"9", "6">>, <<"1", "0", "0">>, <<"3", "5", "2">>, <<"-", "1", "6", "0">>, <<"x">> }

SeqsUpTo(S, n) == UNION {[1..k -> S] : k \in 0..n}

\* the media sections (by their formats) of a description: at most k sections,
\* each with a format, at most n formats in all
RECURSIVE MediaSeqs(_, _)
MediaSeqs(n, k) ==
    IF k = 0 \/ n = 0 THEN {<<>>}
    ELSE {<<>>} \cup
         UNION { { <<s>> \o rest : rest \in MediaSeqs(n - Len(s), k - 1) }
                 : s \in SeqsUpTo(FormatStrings, n) \ {<<>>} }

SdpCodec(name, clockRate, fmtp) == [Name |-> name, ClockRate |-> clockRate, Fmtp |-> fmtp]

\* what the rtpmap and fmtp attributes of a description bind to payload types
RtpTables ==
    { (96 :> SdpCodec(VP8, 90000, "")),
      (96 :> SdpCodec(H264, 90000, "packetization-mode=1"))
          @@ (100 :> SdpCodec(VP8, 90000, "")),
      (96 :> SdpCodec(VP8, 90000, ""))
          @@ (100 :> SdpCodec(VP8, 90000, "max-fs=12288")),
      (96 :> SdpCodec("rtx", 90000, "apt=100"))
          @@ (100 :> SdpCodec(Opus, 48000, "minptime=10")),
      (96 :> SdpCodec(G722, 8000, ""))
          @@ (100 :> SdpCodec(VP9, 90000, "profile-id=0")) }

UnparsableSD == [unmarshalErr |-> TRUE, media |-> <<>>, rtpmap |-> <<>>]

SessionDescriptions ==
    { [unmarshalErr |-> FALSE, media |-> md, rtpmap |-> t] :
          md \in MediaSeqs(MaxFormats, MaxMedia), t \in RtpTables }
    \cup {UnparsableSD}

\* the codecs RegisterCodec is called with
RegisterChoices == { NewRTPVP8Codec(DefaultPayloadTypeVP8, 90000),
                     NewRTPOpusCodec(DefaultPayloadTypeOpus, 48000) }

VARIABLES
    csd,        \* SpecCodec: the session description under test
    m,          \* SpecCodec: m.codecs of the MediaEngine under test
    cret,       \* SpecCodec: the last call and what it returned
    cops        \* SpecCodec: registry-changing calls made so far

codecVars == <<csd, m, cret, cops>>

NoCall == [op |-> "none", found |-> FALSE, PayloadType |-> 0, err |-> Nil, before |-> <<>>]

CodecInit ==
    /\ csd \in SessionDescriptions
    /\ m = <<>>
    /\ cret = NoCall
    /\ cops = 0

\* the MediaEngine under test is not used in the relay program
CodecIdle ==
    /\ csd = UnparsableSD
    /\ m = <<>>
    /\ cret = NoCall
    /\ cops = 0

\* m.RegisterCodec(codec)
CodecRegister(codec) ==
    /\ cops < MaxOps
    /\ m' = RegisterCodec(m, codec)
    /\ cret' = [op |-> "RegisterCodec", found |-> TRUE, PayloadType |-> codec.PayloadType,
                err |-> Nil, before |-> m]
    /\ cops' = cops + 1
    /\ UNCHANGED csd

\* m.PopulateFromSDP(sd)
CodecPopulate ==
    /\ cops < MaxOps
    /\ LET r == PopulateFromSDP(m, csd)
       IN  /\ m' = r.codecs
           /\ cret' = [op |-> "PopulateFromSDP", found |-> FALSE, PayloadType |-> 0,
                       err |-> r.err, before |-> m]
    /\ cops' = cops + 1
    /\ UNCHANGED csd

\* preferredCodec(webrtc.VP8, sd)
CodecPreferred ==
    /\ cret.op # "preferredCodec"
    /\ LET r == preferredCodec(VP8, csd)
       IN  cret' = [op |-> "preferredCodec", found |-> r.found,
                    PayloadType |-> r.PayloadType, err |-> r.err, before |-> m]
    /\ UNCHANGED <<csd, m, cops>>

\* sfu-minimal: PopulateFromSDP into a fresh engine, then firstCodecOfType
CodecMinimalPreferred ==
    /\ cret.op # "firstCodecOfType"
    /\ LET r == minimalPreferred(VP8, csd)
       IN  cret' = [op |-> "firstCodecOfType", found |-> r.found,
                    PayloadType |-> r.PayloadType, err |-> r.err, before |-> m]
    /\ UNCHANGED <<csd, m, cops>>

\* the arguments the lookups are called with
LookupKinds == {RTPCodecTypeAudio, RTPCodecTypeVideo}
LookupNames == {VP8, Opus}
LookupPayloadTypes == {DefaultPayloadTypeVP8, 100}

\* m.GetCodecsByKind(kind)
CodecGetCodecsByKind(kind) ==
    /\ cret' = [op |-> "GetCodecsByKind", found |-> FALSE, PayloadType |-> 0, err |-> Nil,
                before |-> m, arg |-> kind, codecs |-> GetCodecsByKind(m, kind)]
    /\ UNCHANGED <<csd, m, cops>>

\* m.GetCodecsByName(codecName)
CodecGetCodecsByName(codecName) ==
    /\ cret' = [op |-> "GetCodecsByName", found |-> FALSE, PayloadType |-> 0, err |-> Nil,
                before |-> m, arg |-> codecName, codecs |-> GetCodecsByName(m, codecName)]
    /\ UNCHANGED <<csd, m, cops>>

\* m.getCodec(payloadType)
CodecGetCodec(payloadType) ==
    /\ LET r == getCodec(m, payloadType)
       IN  cret' = [op |-> "getCodec", found |-> r.found,
                    PayloadType |-> IF r.found THEN r.codec.PayloadType ELSE 0,
                    err |-> r.err, before |-> m, arg |-> payloadType,
                    codecs |-> IF r.found THEN <<r.codec>> ELSE <<>>]
    /\ UNCHANGED <<csd, m, cops>>

\* the call CodecResolveFresh records: what this resolve returned, how many
\* resolves of csd into fresh engines have been made in a row, and what the
\* first of them returned
FreshCall(r) ==
    [op |-> "resolveFresh", found |-> FALSE, PayloadType |-> 0, err |-> r.err, before |-> m,
     codecs |-> r.codecs,
     n |-> IF cret.op = "resolveFresh" THEN cret.n + 1 ELSE 1,
     first |-> IF cret.op = "resolveFresh" THEN cret.first ELSE r]

\* a resolve that visits the media sections in an order of its own choosing
CodecResolveFreshAnyOrder ==
    /\ cret.op = "resolveFresh" => cret.n < 2
    /\ \E md \in {csd.media} \cup {[i \in 1..Len(csd.media) |-> csd.media[Len(csd.media) + 1 - i]]} :
          cret' = FreshCall(PopulateFromSDP(<<>>, [csd EXCEPT !.media = md]))
    /\ UNCHANGED <<csd, m, cops>>

\* m := webrtc.MediaEngine{} and m.PopulateFromSDP(sd), as preferredCodec and the
\* examples do for every offer: csd is resolved into a MediaEngine of its own
CodecResolveFresh ==
    /\ cret.op = "resolveFresh" => cret.n < 2
    /\ cret' = FreshCall(PopulateFromSDP(<<>>, csd))
    /\ UNCHANGED <<csd, m, cops>>

CodecNext ==
    \/ \E codec \in RegisterChoices : CodecRegister(codec)
    \/ CodecPopulate
    \/ CodecPreferred
    \/ CodecMinimalPreferred
    \/ CodecResolveFresh
    \/ \E kind \in LookupKinds : CodecGetCodecsByKind(kind)
    \/ \E codecName \in LookupNames : CodecGetCodecsByName(codecName)
    \/ \E payloadType \in LookupPayloadTypes : CodecGetCodec(payloadType)

(***************************************************************************)
(* The relay program.                                                      *)
(***************************************************************************)
\* the offers sdpChan delivers: VP8 at 96, VP8 at 100, no VP8, a format that
\* is no integer
OfferVP8at96 ==
    [unmarshalErr |-> FALSE, media |-> << << <<"9", "6">> >> >>,
     rtpmap |-> (96 :> SdpCodec(VP8, 90000, ""))]
OfferVP8at100 ==
    [unmarshalErr |-> FALSE, media |-> << << <<"9", "6">>, <<"1", "0", "0">> >> >>,
     rtpmap |-> (96 :> SdpCodec(H264, 90000, "packetization-mode=1"))
                    @@ (100 :> SdpCodec(VP8, 90000, ""))]
OfferNoVP8 ==
    [unmarshalErr |-> FALSE, media |-> << << <<"9", "6">> >> >>,
     rtpmap |-> (96 :> SdpCodec(G722, 8000, ""))]
OfferMalformed ==
    [unmarshalErr |-> FALSE, media |-> << << <<"x">>, <<"9", "6">> >> >>,
     rtpmap |-> (96 :> SdpCodec(VP8, 90000, ""))]

Offers == {OfferVP8at96, OfferVP8at100, OfferNoVP8, OfferMalformed}

\* the packets the inbound track delivers, as byte sequences
Packets == { <<1, 2>>, <<3>> }

\* rtpBuf := make([]byte, 1400): the buffer holds the longest packet
rtpBufInit == <<0, 0>>

Tracks == 1..MaxTracks
Subs == 1..MaxSubs

\* remoteTrack.SSRC() of the track handler h is invoked with
SSRC(h) == 1000 + h

\* The workloads of a run: how many packets the inbound track delivers, how
\* many subscriber offers arrive, how many remote tracks start and how many
\* ticks each ticker delivers.  A run has one of them.
Loads ==
    { [packets |-> MaxPackets, subs |-> MaxSubs, tracks |-> 1, ticks |-> 0],
      [packets |-> 1, subs |-> 1, tracks |-> 1, ticks |-> MaxTicks],
      [packets |-> 1, subs |-> 1, tracks |-> MaxTracks, ticks |-> 1] }

VARIABLES
    load,       \* the workload of this run
    variant,    \* "sfu" (part_000) or "minimal" (sfu-minimal/main.go)
    crashed,    \* the process has ended by an unrecovered panic
    panicked,   \* who panicked ("main", "handler": an OnTrack handler before its
                \* loop, "forward": the forwarding loop) and the value
    mainPc,     \* position of the main goroutine
    err,        \* the variable err of main, shared with the OnTrack closure
    vp8Payload, \* the publisher's VP8 payload type
    subN,       \* subscriber offers received so far; the current subscriber
    subM,       \* minimal: m.codecs of the subscriber loop after PopulateFromSDP
    subPT,      \* the current subscriber's VP8 payload type
    localTrack, \* main's localTrack: the handler whose track was received, or 0
    hPc,        \* position of each OnTrack handler invocation
    rtpBuf,     \* the forwarding loop's buffer
    rtpLen,     \* i, the length of the last read
    readLog,    \* the packets read so far
    wrSenders,  \* Track.Write in progress: the sinks attached when it began
    wrDone,     \* Track.Write in progress: the sinks written to
    wrSnap,     \* per packet read: the sinks attached when its write began
    wrRes,      \* per packet whose write returned: what the write returned
    sinks,      \* the subscribers attached to the local track
    sinkPT,     \* the payload type each attached subscriber negotiated
    sinkLog,    \* per subscriber: the packets written to it, with their index
    attachAt,   \* per subscriber: the packets read when its AddTrack returned
                \* nil, -1 before
    pliPc,      \* per handler: its PLI goroutine ("off", "loop")
    tickC,      \* per handler: ticker.C holds a tick
    ticks,      \* per handler: ticks the ticker delivered on ticker.C
    pliLog      \* per handler: the WriteRTCP calls made, each [pli, err, ended]

mainVars == <<mainPc, err, vp8Payload, subN, subM, subPT, localTrack>>
fwdVars == <<rtpBuf, rtpLen, readLog, wrSenders, wrDone, wrSnap, wrRes>>
sinkVars == <<sinks, sinkPT, sinkLog, attachAt>>
pliVars == <<pliPc, tickC, ticks, pliLog>>
relayVars == <<load, variant, crashed, panicked, mainVars, hPc, fwdVars, sinkVars, pliVars>>

NoPanic == [by |-> "none", val |-> Nil]

RelayInit ==
    /\ load \in Loads
    /\ variant \in {"sfu", "minimal"}
    /\ crashed = FALSE
    /\ panicked = NoPanic
    /\ mainPc = "publisherOffer"
    /\ err = Nil
    /\ vp8Payload = 0
    /\ subN = 0
    /\ subM = <<>>
    /\ subPT = 0
    /\ localTrack = 0
    /\ hPc = [h \in Tracks |-> "idle"]
    /\ rtpBuf = rtpBufInit
    /\ rtpLen = 0
    /\ readLog = <<>>
    /\ wrSenders = {}
    /\ wrDone = {}
    /\ wrSnap = <<>>
    /\ wrRes = <<>>
    /\ sinks = {}
    /\ sinkPT = [s \in Subs |-> 0]
    /\ sinkLog = [s \in Subs |-> <<>>]
    /\ attachAt = [s \in Subs |-> -1]
    /\ pliPc = [h \in Tracks |-> "off"]
    /\ tickC = [h \in Tracks |-> FALSE]
    /\ ticks = [h \in Tracks |-> 0]
    /\ pliLog = [h \in Tracks |-> <<>>]

\* an unrecovered panic(val) in goroutine by ends the process
Panic(by, val) ==
    /\ crashed' = TRUE
    /\ panicked' = [by |-> by, val |-> val]

NoPanicStep == UNCHANGED <<crashed, panicked>>

\* the resolution of an offer: preferredCodec in part_000, PopulateFromSDP
\* and firstCodecOfType in sfu-minimal
ResolveOffer(v, offer) ==
    IF v = "sfu" THEN preferredCodec(VP8, offer) ELSE minimalPreferred(VP8, offer)

\* the error of a call into the PeerConnection API that fails
ErrAPI == "peer connection error"

(***************************************************************************)
(* The main goroutine up to the receive from localTrackChan.               *)
(***************************************************************************)
\* the publisher's offer is received and resolved; the MediaEngine is built
MainPublisherOffer ==
    /\ ~crashed
    /\ mainPc = "publisherOffer"
    /\ \E offer \in Offers :
          LET r == ResolveOffer(variant, offer)
          IN  IF r.err # Nil
              THEN /\ Panic("main", r.err)
                   /\ err' = r.err
                   /\ UNCHANGED <<mainPc, vp8Payload>>
              ELSE /\ NoPanicStep
                   /\ vp8Payload' = r.PayloadType
                   /\ mainPc' = "newPeerConnection"
                   /\ UNCHANGED err
    /\ UNCHANGED <<load, variant, subN, subM, subPT, localTrack, hPc, fwdVars, sinkVars,
                   pliVars, codecVars>>

\* a call of main that assigns the function-level err and panics on an error
MainCall(from, to) ==
    /\ ~crashed
    /\ mainPc = from
    /\ \E e \in {Nil, ErrAPI} :
          /\ err' = e
          /\ IF e # Nil
             THEN Panic("main", e) /\ UNCHANGED mainPc
             ELSE NoPanicStep /\ mainPc' = to
    /\ UNCHANGED <<load, variant, vp8Payload, subN, subM, subPT, localTrack, hPc, fwdVars,
                   sinkVars, pliVars, codecVars>>

\* api.NewPeerConnection, NewTrack, AddTrack(videoTrack), then OnTrack(handler)
MainNewPeerConnection == MainCall("newPeerConnection", "setRemoteDescription")

\* peerConnection.SetRemoteDescription(offer)
MainSetRemoteDescription == MainCall("setRemoteDescription", "createAnswer")

\* CreateAnswer, SetLocalDescription, and the answer is printed
MainAnswer == MainCall("createAnswer", "recvLocalTrack")

(***************************************************************************)
(* The OnTrack handler.                                                    *)
(***************************************************************************)
\* the remote description is set: the publisher's tracks may start
RemoteDescriptionSet ==
    mainPc \notin {"publisherOffer", "newPeerConnection", "setRemoteDescription"}

\* the handler is invoked for a remote track: it starts the PLI goroutine,
\* creates the local track and goes on to send it on localTrackChan
OnTrack(h) ==
    /\ ~crashed
    /\ RemoteDescriptionSet
    /\ hPc[h] = "idle"
    /\ h <= load.tracks
    /\ \A g \in Tracks : g < h => hPc[g] # "idle"
    /\ pliPc' = [pliPc EXCEPT ![h] = "loop"]
    /\ \E newTrackErr \in {Nil, ErrAPI} :
          IF newTrackErr # Nil
          THEN Panic("handler", newTrackErr) /\ UNCHANGED hPc
          ELSE NoPanicStep /\ hPc' = [hPc EXCEPT ![h] = "sendLocalTrack"]
    /\ UNCHANGED <<load, variant, mainVars, fwdVars, sinkVars, tickC, ticks, pliLog, codecVars>>

\* a main that receives from localTrackChan again and again
HandoffRepeated(h) ==
    /\ ~crashed
    /\ mainPc \in {"recvLocalTrack", "waitOffer"}
    /\ hPc[h] = "sendLocalTrack"
    /\ mainPc' = "waitOffer"
    /\ localTrack' = h
    /\ hPc' = [hPc EXCEPT ![h] = "read"]
    /\ UNCHANGED <<load, variant, crashed, panicked, err, vp8Payload, subN, subM, subPT,
                   fwdVars, sinkVars, pliVars, codecVars>>

\* a send on a channel with a buffer: the handler goes on before main receives
HandoffBuffered(h) ==
    /\ ~crashed
    /\ hPc[h] = "sendLocalTrack"
    /\ hPc' = [hPc EXCEPT ![h] = "read"]
    /\ UNCHANGED <<load, variant, crashed, panicked, mainVars, fwdVars, sinkVars, pliVars,
                   codecVars>>

\* localTrackChan <- localTrack meets localTrack := <-localTrackChan: the
\* channel is unbuffered, main receives once
Handoff(h) ==
    /\ ~crashed
    /\ mainPc = "recvLocalTrack"
    /\ hPc[h] = "sendLocalTrack"
    /\ mainPc' = "waitOffer"
    /\ localTrack' = h
    /\ hPc' = [hPc EXCEPT ![h] = "read"]
    /\ UNCHANGED <<load, variant, crashed, panicked, err, vp8Payload, subN, subM, subPT,
                   fwdVars, sinkVars, pliVars, codecVars>>

(***************************************************************************)
(* Track: the inbound read and the outbound write, attach and fan-out.     *)
(***************************************************************************)
\* remoteTrack.Read(rtpBuf): the packet is copied to the front of the buffer
TrackRead(buf, pkt) == pkt \o SubSeq(buf, Len(pkt) + 1, Len(buf))

\* the sinks a Track.Write that begins now will write to
TrackSenders(snk) == snk

\* what Track.Write returns once it has written to its sinks
TrackWriteReturn(senders) == IF senders = {} THEN ErrClosedPipe ELSE Nil

\* one sink receives the bytes of packet k
TrackDeliver(log, k, bytes) == Append(log, [k |-> k, bytes |-> bytes])

\* AddTrack(localTrack): the subscriber's connection becomes a sink of the track
TrackAttach(snk, s) == snk \cup {s}

(***************************************************************************)
(* The forwarding loop of the OnTrack handler.                             *)
(***************************************************************************)
\* a loop that writes the whole buffer, not the bytes of the read
WriteArgWholeBuffer(buf, i) == buf

\* rtpBuf[:i], the argument of localTrack.Write
WriteArg(buf, i) == SubSeq(buf, 1, i)

\* the errors of localTrack.Write the loop goes on after
WriteErrSwallowed(e) == e = ErrClosedPipe

\* i, readErr := remoteTrack.Read(rtpBuf) succeeds, and localTrack.Write begins
FwdRead(h) ==
    /\ ~crashed
    /\ hPc[h] = "read"
    /\ Len(readLog) < load.packets
    /\ \E pkt \in Packets :
          /\ rtpBuf' = TrackRead(rtpBuf, pkt)
          /\ rtpLen' = Len(pkt)
          /\ readLog' = Append(readLog, pkt)
    /\ wrSenders' = TrackSenders(sinks)
    /\ wrDone' = {}
    /\ wrSnap' = Append(wrSnap, TrackSenders(sinks))
    /\ hPc' = [hPc EXCEPT ![h] = "write"]
    /\ UNCHANGED <<load, variant, crashed, panicked, mainVars, wrRes, sinkVars, pliVars,
                   codecVars>>

\* a loop that reports the read error and reads again
FwdReadFailReported(h) ==
    /\ ~crashed
    /\ hPc[h] = "read"
    /\ panicked' = [by |-> "forward", val |-> ErrRead]
    /\ UNCHANGED <<load, variant, crashed, mainVars, hPc, fwdVars, sinkVars, pliVars,
                   codecVars>>

\* the read fails: panic(readErr)
FwdReadFail(h) ==
    /\ ~crashed
    /\ hPc[h] = "read"
    /\ Panic("forward", ErrRead)
    /\ UNCHANGED <<load, variant, mainVars, hPc, fwdVars, sinkVars, pliVars, codecVars>>

\* localTrack.Write(rtpBuf[:i]) writes the bytes to one more sink
FwdDeliver(h, s) ==
    /\ ~crashed
    /\ hPc[h] = "write"
    /\ wrSenders # {}
    /\ s \in sinks \ wrDone
    /\ sinkLog' = [sinkLog EXCEPT
                     ![s] = TrackDeliver(sinkLog[s], Len(readLog), WriteArg(rtpBuf, rtpLen))]
    /\ wrDone' = wrDone \cup {s}
    /\ UNCHANGED <<load, variant, crashed, panicked, mainVars, hPc, rtpBuf, rtpLen, readLog,
                   wrSenders, wrSnap, wrRes, sinks, sinkPT, attachAt, pliVars, codecVars>>

\* localTrack.Write returns, nil or io.ErrClosedPipe, and err is assigned
FwdWriteReturn(h) ==
    /\ ~crashed
    /\ hPc[h] = "write"
    /\ wrSenders \subseteq wrDone
    /\ err' = TrackWriteReturn(wrSenders)
    /\ wrRes' = Append(wrRes, TrackWriteReturn(wrSenders))
    /\ hPc' = [hPc EXCEPT ![h] = "testNil"]
    /\ UNCHANGED <<load, variant, crashed, panicked, mainPc, vp8Payload, subN, subM, subPT,
                   localTrack, rtpBuf, rtpLen, readLog, wrSenders, wrDone, wrSnap,
                   sinkVars, pliVars, codecVars>>

\* localTrack.Write fails on the transport, and err is assigned
FwdWriteFail(h) ==
    /\ ~crashed
    /\ hPc[h] = "write"
    /\ wrSenders # {}
    /\ err' = ErrTransport
    /\ wrRes' = Append(wrRes, ErrTransport)
    /\ hPc' = [hPc EXCEPT ![h] = "testNil"]
    /\ UNCHANGED <<load, variant, crashed, panicked, mainPc, vp8Payload, subN, subM, subPT,
                   localTrack, rtpBuf, rtpLen, readLog, wrSenders, wrDone, wrSnap,
                   sinkVars, pliVars, codecVars>>

\* err != nil, the left operand of the condition
FwdTestNil(h) ==
    /\ ~crashed
    /\ hPc[h] = "testNil"
    /\ hPc' = [hPc EXCEPT ![h] = IF err # Nil THEN "testClosedPipe" ELSE "read"]
    /\ UNCHANGED <<load, variant, crashed, panicked, mainVars, fwdVars, sinkVars, pliVars,
                   codecVars>>

\* err != io.ErrClosedPipe, the right operand, and panic(err)
FwdTestClosedPipe(h) ==
    /\ ~crashed
    /\ hPc[h] = "testClosedPipe"
    /\ IF WriteErrSwallowed(err)
       THEN NoPanicStep /\ hPc' = [hPc EXCEPT ![h] = "read"]
       ELSE Panic("forward", err) /\ UNCHANGED hPc
    /\ UNCHANGED <<load, variant, mainVars, fwdVars, sinkVars, pliVars, codecVars>>

(***************************************************************************)
(* The subscriber loop of main.                                            *)
(***************************************************************************)
\* part_000: an offer is received; preferredCodec and NewPeerConnection, their
\* errors in the loop's own err
SubOfferSfu ==
    /\ ~crashed
    /\ variant = "sfu"
    /\ mainPc = "waitOffer"
    /\ subN < load.subs
    /\ subN' = subN + 1
    /\ \E offer \in Offers, e \in {Nil, ErrAPI} :
          LET r == preferredCodec(VP8, offer)
          IN  IF r.err # Nil
              THEN Panic("main", r.err) /\ UNCHANGED <<mainPc, subPT>>
              ELSE IF e # Nil
                   THEN Panic("main", e) /\ UNCHANGED <<mainPc, subPT>>
                   ELSE NoPanicStep /\ subPT' = r.PayloadType /\ mainPc' = "addTrack"
    /\ UNCHANGED <<load, variant, err, vp8Payload, subM, localTrack, hPc, fwdVars, sinkVars,
                   pliVars, codecVars>>

\* sfu-minimal: an offer is received; err = m.PopulateFromSDP(recvOnlyOffer)
\* assigns the err of main
SubOfferMinimal ==
    /\ ~crashed
    /\ variant = "minimal"
    /\ mainPc = "waitOffer"
    /\ subN < load.subs
    /\ subN' = subN + 1
    /\ \E offer \in Offers :
          LET pop == PopulateFromSDP(<<>>, offer)
          IN  /\ err' = pop.err
              /\ subM' = pop.codecs
    /\ mainPc' = "testErr"
    /\ UNCHANGED <<load, variant, crashed, panicked, vp8Payload, subPT, localTrack, hPc,
                   fwdVars, sinkVars, pliVars, codecVars>>

\* sfu-minimal: if err != nil { panic(err) }, then firstCodecOfType and
\* NewPeerConnection, their errors in the loop's own err
SubTestErr ==
    /\ ~crashed
    /\ mainPc = "testErr"
    /\ \E e \in {Nil, ErrAPI} :
          LET r == firstCodecOfType(subM, VP8, RTPCodecTypeVideo)
          IN  IF err # Nil
              THEN Panic("main", err) /\ UNCHANGED <<mainPc, subPT>>
              ELSE IF r.err # Nil
                   THEN Panic("main", r.err) /\ UNCHANGED <<mainPc, subPT>>
              ELSE IF e # Nil
                   THEN Panic("main", e) /\ UNCHANGED <<mainPc, subPT>>
                   ELSE NoPanicStep /\ subPT' = r.PayloadType /\ mainPc' = "addTrack"
    /\ subM' = <<>>
    /\ UNCHANGED <<load, variant, err, vp8Payload, subN, localTrack, hPc, fwdVars, sinkVars,
                   pliVars, codecVars>>

\* a loop that adds a track of its own, not the shared local track
SubAddTrackOwnTrack ==
    /\ ~crashed
    /\ mainPc = "addTrack"
    /\ \E e \in {Nil, ErrAPI} :
          IF e # Nil
          THEN Panic("main", e) /\ UNCHANGED <<mainPc, sinkVars>>
          ELSE /\ NoPanicStep
               /\ sinkPT' = [sinkPT EXCEPT ![subN] = subPT]
               /\ attachAt' = [attachAt EXCEPT ![subN] = Len(readLog)]
               /\ mainPc' = "negotiate"
               /\ UNCHANGED <<sinks, sinkLog>>
    /\ UNCHANGED <<load, variant, err, vp8Payload, subN, subM, subPT, localTrack, hPc,
                   fwdVars, pliVars, codecVars>>

\* peerConnection.AddTrack(localTrack): the subscriber subN is attached to the
\* shared local track
SubAddTrack ==
    /\ ~crashed
    /\ mainPc = "addTrack"
    /\ \E e \in {Nil, ErrAPI} :
          IF e # Nil
          THEN Panic("main", e) /\ UNCHANGED <<mainPc, sinkVars>>
          ELSE /\ NoPanicStep
               /\ sinks' = TrackAttach(sinks, subN)
               /\ sinkPT' = [sinkPT EXCEPT ![subN] = subPT]
               /\ attachAt' = [attachAt EXCEPT ![subN] = Len(readLog)]
               /\ mainPc' = "negotiate"
               /\ UNCHANGED sinkLog
    /\ UNCHANGED <<load, variant, err, vp8Payload, subN, subM, subPT, localTrack, hPc, fwdVars,
                   pliVars, codecVars>>

\* SetRemoteDescription, CreateAnswer, SetLocalDescription of the subscriber's
\* connection, and the answer is printed
SubNegotiate ==
    /\ ~crashed
    /\ mainPc = "negotiate"
    /\ \E e \in {Nil, ErrAPI} :
          IF e # Nil
          THEN Panic("main", e) /\ UNCHANGED mainPc
          ELSE NoPanicStep /\ mainPc' = "waitOffer"
    /\ UNCHANGED <<load, variant, err, vp8Payload, subN, subM, subPT, localTrack, hPc, fwdVars,
                   sinkVars, pliVars, codecVars>>

(***************************************************************************)
(* The PLI goroutine of an OnTrack handler and its ticker.                 *)
(***************************************************************************)
\* a PLI that names no media source
PictureLossIndicationNoSSRC(h) == [MediaSSRC |-> 0]

\* the packet handed to WriteRTCP
PictureLossIndication(h) == [MediaSSRC |-> SSRC(h)]

\* time.NewTicker(rtcpPLIInterval) delivers a tick on ticker.C, which holds one
Tick(h) ==
    /\ ~crashed
    /\ pliPc[h] = "loop"
    /\ ~tickC[h]
    /\ ticks[h] < load.ticks
    /\ tickC' = [tickC EXCEPT ![h] = TRUE]
    /\ ticks' = [ticks EXCEPT ![h] = ticks[h] + 1]
    /\ UNCHANGED <<load, variant, crashed, panicked, mainVars, hPc, fwdVars, sinkVars, pliPc,
                   pliLog, codecVars>>

\* the inbound read has failed (the publisher's stream has ended)
ReadFailed == panicked.by = "forward" /\ panicked.val = ErrRead

\* a goroutine that panics when WriteRTCP returns an error
PLILoopFatal(h) ==
    /\ ~crashed
    /\ pliPc[h] = "loop"
    /\ tickC[h]
    /\ tickC' = [tickC EXCEPT ![h] = FALSE]
    /\ \E rtcpSendErr \in {Nil, ErrAPI} :
          /\ pliLog' = [pliLog EXCEPT
                          ![h] = Append(pliLog[h], [pli |-> PictureLossIndication(h),
                                                    err |-> rtcpSendErr,
                                                    ended |-> ReadFailed])]
          /\ IF rtcpSendErr # Nil THEN Panic("pli", rtcpSendErr) ELSE NoPanicStep
    /\ UNCHANGED <<load, variant, mainVars, hPc, fwdVars, sinkVars, pliPc, ticks, codecVars>>

\* for range ticker.C: a tick is received, WriteRTCP is called, and an error
\* is printed.  The log notes whether the inbound stream had ended by then.
PLILoop(h) ==
    /\ ~crashed
    /\ pliPc[h] = "loop"
    /\ tickC[h]
    /\ tickC' = [tickC EXCEPT ![h] = FALSE]
    /\ \E rtcpSendErr \in {Nil, ErrAPI} :
          pliLog' = [pliLog EXCEPT
                       ![h] = Append(pliLog[h], [pli |-> PictureLossIndication(h),
                                                 err |-> rtcpSendErr,
                                                 ended |-> ReadFailed])]
    /\ UNCHANGED <<load, variant, crashed, panicked, mainVars, hPc, fwdVars, sinkVars, pliPc,
                   ticks, codecVars>>

Next ==
    \/ MainPublisherOffer
    \/ MainNewPeerConnection
    \/ MainSetRemoteDescription
    \/ MainAnswer
    \/ \E h \in Tracks : OnTrack(h)
    \/ \E h \in Tracks : Handoff(h)
    \/ \E h \in Tracks : FwdRead(h)
    \/ \E h \in Tracks : FwdReadFail(h)
    \/ \E h \in Tracks, s \in Subs : FwdDeliver(h, s)
    \/ \E h \in Tracks : FwdWriteReturn(h)
    \/ \E h \in Tracks : FwdWriteFail(h)
    \/ \E h \in Tracks : FwdTestNil(h)
    \/ \E h \in Tracks : FwdTestClosedPipe(h)
    \/ SubOfferSfu
    \/ SubOfferMinimal
    \/ SubTestErr
    \/ SubAddTrack
    \/ SubNegotiate
    \/ \E h \in Tracks : Tick(h)
    \/ \E h \in Tracks : PLILoop(h)

vars == <<codecVars, relayVars>>

Init == RelayInit /\ CodecIdle

Spec == Init /\ [][Next]_vars

\* the steps the forwarding goroutine of handler h takes by itself once a
\* packet is read: the write to the sinks, its return and the test of err
FwdProgress(h) ==
    \/ \E s \in Subs : FwdDeliver(h, s)
    \/ FwdWriteReturn(h)
    \/ FwdTestNil(h)
    \/ FwdTestClosedPipe(h)

\* SpecFair: the Go scheduler lets a runnable forwarding goroutine run
SpecFair == Spec /\ \A h \in Tracks : WF_vars(FwdProgress(h))

\* SpecCodec: the MediaEngine operations alone; the relay program does not run
RelayIdle ==
    /\ RelayInit
    /\ variant = "sfu"
    /\ load = [packets |-> 1, subs |-> 1, tracks |-> 1, ticks |-> MaxTicks]

CodecStep == CodecNext /\ UNCHANGED relayVars

InitCodec == CodecInit /\ RelayIdle

SpecCodec == InitCodec /\ [][CodecStep]_vars

(***************************************************************************)
(* The relay session and what the claims speak of.                         *)
(***************************************************************************)
SessionState ==
    IF crashed THEN "Terminated"
    ELSE IF localTrack # 0 THEN "Active"
    ELSE "AwaitingPublisher"

\* sink s has been written packet k
SinkHas(s, k) == \E j \in 1..Len(sinkLog[s]) : sinkLog[s][j].k = k

\* AddTrack(localTrack) has returned nil for subscriber s
AddTrackReturned(s) == attachAt[s] >= 0

(***************************************************************************)
(* C1.  Every packet read is passed to the outbound track once, in the     *)
(* order read and with exactly the bytes rtpBuf[:i] of its read: what a    *)
(* sink is written is byte-identical to the packet read, a sink's packets  *)
(* are in read order without duplicates, every write that returned nil has *)
(* reached every sink attached when it began, and the loop reads the next  *)
(* packet only after the write of the last one has returned.               *)
(***************************************************************************)
C1_ForwardsEveryPacket ==
    /\ \A s \in Subs : \A j \in 1..Len(sinkLog[s]) :
          /\ sinkLog[s][j].k \in 1..Len(readLog)
          /\ sinkLog[s][j].bytes = readLog[sinkLog[s][j].k]
          /\ j > 1 => sinkLog[s][j - 1].k < sinkLog[s][j].k
    /\ \A k \in 1..Len(wrRes) :
          wrRes[k] = Nil => \A s \in wrSnap[k] : SinkHas(s, k)
    /\ Len(wrSnap) = Len(readLog)
    /\ Len(wrRes) \in {Len(readLog) - 1, Len(readLog)}
    /\ \A h \in Tracks : hPc[h] = "read" => Len(wrRes) = Len(readLog)

\* two sinks, the first written both packets, the second shorter than the
\* first, and the second sink written the packet read after its attach
C1_Witness ==
    /\ SessionState = "Active"
    /\ sinks = {1, 2}
    /\ readLog = << <<1, 2>>, <<3>> >>
    /\ wrRes = <<Nil, Nil>>
    /\ sinkLog[1] = << [k |-> 1, bytes |-> <<1, 2>>], [k |-> 2, bytes |-> <<3>>] >>
    /\ sinkLog[2] = << [k |-> 2, bytes |-> <<3>>] >>

(***************************************************************************)
(* C2.  A write that returns io.ErrClosedPipe does not end the forwarding  *)
(* loop, and a write that fails with any other error ends it: the handler  *)
(* panics only after a write that returned an error other than             *)
(* io.ErrClosedPipe, and no packet is read after such a write.             *)
(***************************************************************************)
C2_WriteErrorPolicy ==
    /\ (crashed /\ panicked.by = "forward" /\ ~ReadFailed)
          => wrRes[Len(wrRes)] \notin {Nil, ErrClosedPipe}
    /\ \A k \in 1..Len(wrRes) :
          wrRes[k] \notin {Nil, ErrClosedPipe} => Len(readLog) = k

(***************************************************************************)
(* C3.  Once a read from the inbound track has failed the session is       *)
(* Terminated and stays so, and no packet is written to any sink.          *)
(***************************************************************************)
C3_ReadFailureTerminates ==
    [][(ReadFailed \/ ReadFailed')
          => (ReadFailed' /\ SessionState' = "Terminated" /\ sinkLog' = sinkLog
                /\ readLog' = readLog)]_vars

\* the read failed in an Active session that had forwarded a packet
C3_Witness ==
    /\ ReadFailed
    /\ localTrack # 0
    /\ SessionState = "Terminated"
    /\ \E s \in Subs : sinkLog[s] # <<>>

(***************************************************************************)
(* C4.  Each tick a PLI ticker delivers is answered by exactly one         *)
(* WriteRTCP call, carrying one PictureLossIndication addressed to the     *)
(* SSRC of the handler's remote track; the ticker goroutine runs from the  *)
(* start of the handler on; and no call is made once the inbound read has  *)
(* failed.  (A tick is one delivered on ticker.C.)                         *)
(***************************************************************************)
C4_OnePLIPerTick ==
    \A h \in Tracks :
        /\ Len(pliLog[h]) + (IF tickC[h] THEN 1 ELSE 0) = ticks[h]
        /\ \A j \in 1..Len(pliLog[h]) :
              /\ pliLog[h][j].pli = [MediaSSRC |-> SSRC(h)]
              /\ ~pliLog[h][j].ended
        /\ hPc[h] # "idle" => pliPc[h] = "loop"
        /\ pliPc[h] = "off" => ticks[h] = 0

\* two ticks answered by two requests while the stream was read, then the
\* read failed
C4_Witness ==
    /\ ReadFailed
    /\ ticks[1] = 2
    /\ Len(pliLog[1]) = 2
    /\ readLog # <<>>

(***************************************************************************)
(* C5.  A subscriber attached while the forwarding loop runs, also in the  *)
(* middle of a write, is written every packet whose write begins after its *)
(* AddTrack has returned and returns nil (such a write does not return     *)
(* io.ErrClosedPipe), and no packet from before its attach; the sinks      *)
(* attached earlier go on being written every packet; the attach itself    *)
(* ends the process only when AddTrack returns an error.                   *)
(***************************************************************************)
C5_AttachWhileForwarding ==
    /\ \A s \in Subs : AddTrackReturned(s) =>
          /\ \A k \in 1..Len(wrRes) :
                k > attachAt[s] =>
                    /\ wrRes[k] # ErrClosedPipe
                    /\ wrRes[k] = Nil
                          => \E j \in 1..Len(sinkLog[s]) :
                                sinkLog[s][j] = [k |-> k, bytes |-> readLog[k]]
          /\ \A j \in 1..Len(sinkLog[s]) : sinkLog[s][j].k >= attachAt[s]
    /\ \A s \in Subs : ~AddTrackReturned(s) => sinkLog[s] = <<>>
    /\ (crashed /\ mainPc = "addTrack") => panicked.val = ErrAPI \/ panicked.by # "main"

\* subscriber 2 attached in the middle of the write of packet 1, was written
\* that packet and the next, and so was subscriber 1
C5_Witness ==
    /\ ~crashed
    /\ attachAt[2] = 1
    /\ wrSnap[1] = {1}
    /\ wrRes = <<Nil, Nil>>
    /\ Len(sinkLog[1]) = 2
    /\ Len(sinkLog[2]) = 2

(***************************************************************************)
(* C6.  A failure of a subscriber's negotiation does not end the relay     *)
(* session: the main goroutine never ends the process from its subscriber  *)
(* loop.                                                                   *)
(***************************************************************************)
C6_SubscriberFailureIsLocal ==
    ~(crashed /\ panicked.by = "main" /\ localTrack # 0)

(***************************************************************************)
(* Session descriptions as the claims speak of them.                       *)
(***************************************************************************)
\* the calls that stand for preferredPayloadType
PreferredOps == {"preferredCodec", "firstCodecOfType"}

\* a payload type as RTP has it: a decimal integer in 0..127
ValidFormat(f) == AllDigits(f) /\ DecimalVal(f) \in 0..127

\* the description parses and all its formats are payload types
ValidSD(sd) ==
    /\ ~sd.unmarshalErr
    /\ \A i \in 1..Len(FlatFormats(sd.media)) : ValidFormat(FlatFormats(sd.media)[i])

\* a media section of the description declares format P, bound to VP8
AdvertisesVP8At(sd, P) ==
    /\ P \in DOMAIN sd.rtpmap
    /\ sd.rtpmap[P].Name = VP8
    /\ \E i \in 1..Len(FlatFormats(sd.media)) :
          /\ ValidFormat(FlatFormats(sd.media)[i])
          /\ DecimalVal(FlatFormats(sd.media)[i]) = P

\* the positions, in media-section then format order, of the formats bound to VP8
VP8Positions(sd) ==
    {i \in 1..Len(FlatFormats(sd.media)) :
        /\ DecimalVal(FlatFormats(sd.media)[i]) \in DOMAIN sd.rtpmap
        /\ sd.rtpmap[DecimalVal(FlatFormats(sd.media)[i])].Name = VP8}

\* every format of the description has a codec bound to it
AllBound(sd) ==
    \A i \in 1..Len(FlatFormats(sd.media)) :
        DecimalVal(FlatFormats(sd.media)[i]) \in DOMAIN sd.rtpmap

\* no attribute of the description names VP8
NoVP8(sd) == \A pt \in DOMAIN sd.rtpmap : sd.rtpmap[pt].Name # VP8

IsCodecNotFound(e) == e \in {ErrNoNamedCodec, ErrNoKindCodecs}

\* format f is no integer, or no codec is bound to the integer it declares
NotAnInteger(f) == Atoi(f).err # Nil
Offending(sd, f) == NotAnInteger(f) \/ Atoi(f).val \notin DOMAIN sd.rtpmap

Least(S) == CHOOSE i \in S : \A j \in S : i <= j

(***************************************************************************)
(* C7 as stated.  For a valid description (it parses, its formats are all  *)
(* payload types with a codec bound to each) that advertises VP8 at        *)
(* payload type P, preferredPayloadType("VP8", sd) returns P.              *)
(***************************************************************************)
C7_ReturnsAdvertisedVP8 ==
    (cret.op \in PreferredOps /\ ValidSD(csd) /\ AllBound(csd)) =>
        \A P \in DOMAIN csd.rtpmap :
            AdvertisesVP8At(csd, P) => (cret.found /\ cret.PayloadType = P)

(***************************************************************************)
(* C7 as amended.  For a description that parses, whose formats are all    *)
(* payload types with a codec bound to each, and that declares a format    *)
(* bound to VP8, preferredPayloadType("VP8", sd) returns, with no error,   *)
(* the payload type of the first format bound to VP8 in media-section then *)
(* format order.                                                           *)
(***************************************************************************)
C7_ReturnsFirstVP8 ==
    (cret.op \in PreferredOps /\ ValidSD(csd) /\ AllBound(csd) /\ VP8Positions(csd) # {})
        => /\ cret.found
           /\ cret.err = Nil
           /\ cret.PayloadType = DecimalVal(FlatFormats(csd.media)[Least(VP8Positions(csd))])

\* VP8 declared at 100 and then at 96: 100 is returned
C7_Witness ==
    /\ cret.op = "preferredCodec"
    /\ csd.media = << << <<"1", "0", "0">> >>, << <<"9", "6">> >> >>
    /\ \A pt \in {96, 100} : AdvertisesVP8At(csd, pt)
    /\ cret.found
    /\ cret.PayloadType = 100

(***************************************************************************)
(* C8 as stated.  For a description (one that parses) with no VP8,         *)
(* preferredPayloadType("VP8", sd) fails with CodecNotFound, whatever      *)
(* formats it declares.                                                    *)
(***************************************************************************)
C8_NoVP8IsCodecNotFound ==
    (cret.op \in PreferredOps /\ NoVP8(csd) /\ ~csd.unmarshalErr)
        => (~cret.found /\ IsCodecNotFound(cret.err))

(***************************************************************************)
(* C8 as amended.  For a description with no VP8,                          *)
(* preferredPayloadType("VP8", sd) returns an error and no payload type:   *)
(* the error of resolve when resolve fails on the description, and         *)
(* CodecNotFound when it does not.                                         *)
(***************************************************************************)
C8_NoVP8Fails ==
    (cret.op \in PreferredOps /\ NoVP8(csd))
        => /\ ~cret.found
           /\ cret.PayloadType = 0
           /\ cret.err # Nil
           /\ LET resolveErr == PopulateFromSDP(<<>>, csd).err
              IN  IF resolveErr # Nil THEN cret.err = resolveErr
                  ELSE IsCodecNotFound(cret.err)

\* a description that resolves to codecs other than VP8
C8_Witness ==
    /\ cret.op = "preferredCodec"
    /\ NoVP8(csd)
    /\ PopulateFromSDP(<<>>, csd).codecs # <<>>
    /\ PopulateFromSDP(<<>>, csd).err = Nil
    /\ cret.err = ErrNoNamedCodec

(***************************************************************************)
(* C9.  resolve of a description that parses fails exactly when a format   *)
(* is no integer or declares a payload type with no codec bound to it, and *)
(* with the error of the first such format: MalformedDescription for the   *)
(* one, UnresolvableCodec for the other.                                   *)
(***************************************************************************)
C9_ResolveErrors ==
    (cret.op = "PopulateFromSDP" /\ ~csd.unmarshalErr) =>
        LET flat == FlatFormats(csd.media)
            bad == {i \in 1..Len(flat) : Offending(csd, flat[i])}
        IN  IF bad = {} THEN cret.err = Nil
            ELSE IF NotAnInteger(flat[Least(bad)]) THEN cret.err = ErrFormatParse
            ELSE cret.err = ErrNoCodecForPayloadType

\* the (payload type, codec name) entries of a registry, in its order
Mapping(codecs) == [i \in 1..Len(codecs) |-> <<codecs[i].PayloadType, codecs[i].Name>>]

(***************************************************************************)
(* C10.  No two descriptors of a registry have the same payload type.      *)
(***************************************************************************)
C10_PayloadTypeUnique ==
    \A i, j \in 1..Len(m) : i # j => m[i].PayloadType # m[j].PayloadType

C12_LookupsKeepOrder ==
    (cret.op \in {"GetCodecsByKind", "GetCodecsByName"}) =>
        LET hits == IF cret.op = "GetCodecsByKind"
                    THEN {i \in 1..Len(m) : m[i].Type = cret.arg}
                    ELSE {i \in 1..Len(m) : m[i].Name = cret.arg}
        IN  /\ Len(cret.codecs) = Cardinality(hits)
            /\ \A i \in hits :
                  cret.codecs[Cardinality({j \in hits : j <= i})] = m[i]

\* three registrations, the second not of the kind asked for, the first and
\* the third returned in that order
C12_Witness ==
    /\ cret.op = "GetCodecsByKind"
    /\ Len(m) = 3
    /\ m[2].Type # cret.arg
    /\ cret.codecs = <<m[1], m[3]>>
    /\ m[1] # m[3]

(***************************************************************************)
(* C13.  No descriptor is ever removed: every step leaves the registry's   *)
(* entries in place as a prefix; RegisterCodec appends exactly one         *)
(* descriptor, the one it was given; PopulateFromSDP only appends, also    *)
(* when it returns an error; the lookups GetCodecsByKind, GetCodecsByName  *)
(* and getCodec leave the registry as it is.                               *)
(***************************************************************************)
C13_AppendOnly ==
    [][/\ Len(m') >= Len(m)
       /\ SubSeq(m', 1, Len(m)) = m
       /\ (cops' # cops /\ cret'.op = "RegisterCodec")
             => /\ Len(m') = Len(m) + 1
                /\ m'[Len(m')] \in RegisterChoices
                /\ m'[Len(m')].PayloadType = cret'.PayloadType
       /\ (cops' = cops) => m' = m]_vars

\* a resolve that registered a descriptor after an earlier registration and
\* then returned an error
C13_Witness ==
    /\ cret.op = "PopulateFromSDP"
    /\ cret.err # Nil
    /\ cret.before # <<>>
    /\ Len(m) > Len(cret.before)

(***************************************************************************)
(* C14.  The payload types of the registry a successful resolve fills are  *)
(* those the description declares: every payload type of the registry lies *)
(* in 0..127 and is, as an integer, a format declared in a media section.  *)
(***************************************************************************)
C14_PayloadTypesAsDeclared ==
    (cret.op = "PopulateFromSDP" /\ cret.before = <<>> /\ cret.err = Nil) =>
        \A i \in 1..Len(m) :
            /\ m[i].PayloadType \in 0..127
            /\ \E k \in 1..Len(FlatFormats(csd.media)) :
                  /\ ~NotAnInteger(FlatFormats(csd.media)[k])
                  /\ Atoi(FlatFormats(csd.media)[k]).val = m[i].PayloadType

\* the codec names PopulateFromSDP builds descriptors for
KnownNames == {G722, Opus, VP8, VP9, H264}

(***************************************************************************)
(* C15.  When resolve succeeds on a fresh registry for a description whose *)
(* formats are all payload types with a codec bound to each, the registry  *)
(* holds one descriptor per declared format whose codec name is known, in  *)
(* media-section then format order, each with the payload type, name,      *)
(* clock rate and format parameters the description binds to that format;  *)
(* formats of other names contribute nothing.                              *)
(***************************************************************************)
C15_DescriptorsAsDeclared ==
    (cret.op = "PopulateFromSDP" /\ cret.before = <<>> /\ cret.err = Nil
        /\ ValidSD(csd) /\ AllBound(csd)) =>
        LET flat == FlatFormats(csd.media)
            Bound(i) == csd.rtpmap[DecimalVal(flat[i])]
            known == {i \in 1..Len(flat) : Bound(i).Name \in KnownNames}
        IN  /\ Len(m) = Cardinality(known)
            /\ \A i \in known :
                  LET d == m[Cardinality({j \in known : j <= i})]
                  IN  /\ d.PayloadType = DecimalVal(flat[i])
                      /\ d.Name = Bound(i).Name
                      /\ d.ClockRate = Bound(i).ClockRate
                      /\ d.SDPFmtpLine = Bound(i).Fmtp

\* the step is a WriteRTCP call of handler h's goroutine that returns an error
SendFails(h) ==
    /\ Len(pliLog'[h]) = Len(pliLog[h]) + 1
    /\ pliLog'[h][Len(pliLog'[h])].err # Nil

(***************************************************************************)
(* C16.  A WriteRTCP call that returns an error ends nothing: the step     *)
(* leaves the process running, the goroutine in its loop over ticker.C,    *)
(* and the main goroutine, the handlers, the forwarding loop, the sinks    *)
(* and the session state as they were; and whatever was sent before, a     *)
(* goroutine that takes a tick from ticker.C makes a WriteRTCP call with   *)
(* the PLI of its track.                                                   *)
(***************************************************************************)
C16_SendFailureNotFatal ==
    [][\A h \in Tracks :
          /\ SendFails(h) =>
                /\ UNCHANGED <<crashed, panicked, mainVars, hPc, fwdVars, sinkVars, pliPc>>
                /\ ~crashed'
                /\ pliPc'[h] = "loop"
                /\ SessionState' = SessionState
          /\ (tickC[h] /\ ~tickC'[h]) =>
                /\ Len(pliLog'[h]) = Len(pliLog[h]) + 1
                /\ pliLog'[h][Len(pliLog'[h])].pli = [MediaSSRC |-> SSRC(h)]
          /\ (pliLog[h] # <<>> /\ tickC[h] /\ ~crashed) => pliPc[h] = "loop"]_vars

\* a request failed, the request of the next tick was sent, and a packet read
\* after the failure was forwarded to a subscriber
C16_Witness ==
    /\ ~crashed
    /\ Len(pliLog[1]) = 2
    /\ pliLog[1][1].err = ErrAPI
    /\ pliLog[1][2].err = Nil
    /\ SessionState = "Active"
    /\ sinkLog[1] # <<>>

\* packet k has been read from the inbound track
Delivered(k) == Len(readLog) >= k

\* localTrack.Write has been called with packet k and has returned
Written(k) == Len(wrRes) >= k

\* the process was ended by something other than the subscriber loop
EndedElsewhere == crashed /\ ~(panicked.by = "main" /\ localTrack # 0)

(***************************************************************************)
(* C17.  Under fair scheduling of the forwarding goroutine, every packet   *)
(* read from the inbound track is eventually written to the outbound       *)
(* track, whatever the subscriber loop is doing, unless the process is     *)
(* ended by something other than the subscriber loop.                      *)
(***************************************************************************)
C17_ForwardingNotBlocked ==
    \A k \in 1..MaxPackets : Delivered(k) ~> (Written(k) \/ EndedElsewhere)

\* the forwarding loop of handler h is between the assignment of err by its
\* write and the end of its test of err
FwdTestsErr(h) == hPc[h] \in {"testNil", "testClosedPipe"}

\* the subscriber loop is between err = m.PopulateFromSDP(recvOnlyOffer) and
\* its test of err
MainTestsErr == mainPc = "testErr"

(***************************************************************************)
(* C18.  In sfu-minimal, the err a goroutine tests is the one its own call *)
(* returned: while the forwarding loop is between its write and the end of *)
(* its test, and while the subscriber loop is between its resolve and its  *)
(* test, no step changes the value of err.                                 *)
(***************************************************************************)
C18_ErrNotShared ==
    [][(variant = "minimal") =>
          /\ \A h \in Tracks : (FwdTestsErr(h) /\ FwdTestsErr(h)') => err' = err
          /\ (MainTestsErr /\ MainTestsErr') => err' = err]_vars

\* the main goroutine is in its subscriber loop
InSubscriberLoop == mainPc \in {"waitOffer", "testErr", "addTrack", "negotiate"}

\* handler h has passed its channel send and is in its forwarding loop
InForwardingLoop(h) == hPc[h] \in {"read", "write", "testNil", "testClosedPipe"}

(***************************************************************************)
(* C19.  The subscriber loop runs, a subscriber offer is consumed and a    *)
(* subscriber is attached only after main has received the outbound track  *)
(* from localTrackChan; the track received is one a handler created and    *)
(* sent; and a handler is in its forwarding loop, and a packet is read,    *)
(* only after main has received that handler's track.                      *)
(***************************************************************************)
C19_HandoffFirst ==
    /\ (InSubscriberLoop \/ subN > 0 \/ sinks # {} \/ \E s \in Subs : AddTrackReturned(s))
          => localTrack # 0
    /\ localTrack # 0 => (InSubscriberLoop /\ hPc[localTrack] \notin {"idle", "sendLocalTrack"})
    /\ \A h \in Tracks : InForwardingLoop(h) => localTrack = h
    /\ readLog # <<>> => localTrack # 0

\* after the handoff two offers were consumed, a subscriber was attached and
\* a packet was read
C19_Witness ==
    /\ localTrack = 1
    /\ subN = 2
    /\ sinks # {}
    /\ readLog # <<>>
    /\ InForwardingLoop(1)

\* the handlers that are in their forwarding loop
ForwardingLoops == {h \in Tracks : InForwardingLoop(h)}

(***************************************************************************)
(* C20 as stated.  At most one forwarding loop runs, and every invocation  *)
(* of the handler after the first (the handlers are invoked in the order   *)
(* of their numbers) stays before or at its channel send.                  *)
(***************************************************************************)
C20_LaterHandlersBlock ==
    /\ Cardinality(ForwardingLoops) <= 1
    /\ \A h \in Tracks : h > 1 => hPc[h] \in {"idle", "sendLocalTrack"}

(***************************************************************************)
(* C20 as amended.  At most one forwarding loop runs: main receives from   *)
(* localTrackChan once, the track it holds never changes, and every        *)
(* invocation of the handler other than the one whose track main received  *)
(* stays before or at its channel send, so reads no packet and writes to   *)
(* no sink.                                                                *)
(***************************************************************************)
C20_OneForwardingLoop ==
    [][/\ localTrack # 0 => localTrack' = localTrack
       /\ Cardinality(ForwardingLoops') <= 1
       /\ \A h \in Tracks : h # localTrack' => hPc'[h] \in {"idle", "sendLocalTrack"}
       /\ (readLog' # readLog \/ sinkLog' # sinkLog)
             => (localTrack # 0 /\ InForwardingLoop(localTrack))]_vars

\* the second invocation handed its track over and forwarded a packet to a
\* subscriber, the first is at its channel send
C20_Witness ==
    /\ localTrack = 2
    /\ hPc[1] = "sendLocalTrack"
    /\ InForwardingLoop(2)
    /\ \E s \in Subs : sinkLog[s] # <<>>

====
